---- MODULE Spec2Model ----
(***************************************************************************)
(* A model of digest.py: the paginated fetcher (fetch_issues), the label   *)
(* and assignee classifier (get_priority_score, get_priority_label,        *)
(* keep_issue) and the assembly done by main (filter, sort, render,        *)
(* write).                                                                 *)
(*                                                                         *)
(* Strings that the code inspects character by character (labels, logins,  *)
(* queries, the token) are sequences of one-character strings, so that     *)
(* lower(), strip(), == and "in" are computed rather than assumed.         *)
(***************************************************************************)
EXTENDS Integers, Sequences, FiniteSets, TLC

VARIABLES
    pc,          \* position of main: "start", "request", "returned", "sort",
                 \* "render", "done", "exit1", "error", and "probe"/"probed"
    cfg,         \* what main read from the environment (lines 212-225)
    call,        \* which fetch_issues call is running: "issues", "prs", "none"
    qi,          \* fetch_issues: index of the query of the for loop
    page,        \* fetch_issues: page
    results,     \* fetch_issues: the dict results, in insertion order
    resp,        \* fetch_issues: the outcome of the last request (resp, data)
    issues,      \* main: issues, what the first call returned
    prs,         \* main: prs, what the second call returned
    all_items,   \* main: all_items
    out,         \* the output file: NoFile, or the sequence rendered into it
    tracker,     \* the items the search endpoint may put on a page
    probe,       \* input of the pure functions: an item and the raw policy
    answer       \* what the pure functions gave for probe

vars == <<pc, cfg, call, qi, page, results, resp, issues, prs, all_items, out,
          tracker, probe, answer>>

(***************************************************************************)
(* Bounds of the model.                                                    *)
(***************************************************************************)
\* html_url values the endpoint can return
NumUrls == 2
\* MAX_ISSUES and MAX_PRS range over 0..MaxLimit
MaxLimit == 2
\* SEARCH_QUERIES and PR_QUERIES hold at most MaxQueries entries
MaxQueries == 2
\* the endpoint's result window, in pages: page MaxPage of a query is short
MaxPage == 2
\* the page size asked for (50 at digest.py:27, scaled down)
per_page == 2
\* labels of a probed item
MaxLabels == 2
\* assignees of a probed item
MaxAssignees == 1
\* comma-separated pieces of PRIORITY_LABELS, EXCLUDE_LABELS, EXCLUDE_ASSIGNEES
MaxPolicy == 1
\* length of all_items when the ranking is checked on its own
MaxItems == 3

(***************************************************************************)
(* Strings.                                                                *)
(***************************************************************************)
\* str.lower() on one character (the letters that occur in the model)
LowerChar(c) ==
    CASE c = "A" -> "a" [] c = "B" -> "b" [] c = "G" -> "g" [] c = "I" -> "i"
      [] c = "O" -> "o" [] c = "P" -> "p" [] c = "R" -> "r" [] c = "T" -> "t"
      [] c = "U" -> "u" [] c = "Y" -> "y" [] OTHER -> c

\* str.lower()
StrLower(s) == [i \in 1..Len(s) |-> LowerChar(s[i])]

\* sub in s
StrContains(sub, s) ==
    \E i \in 0..(Len(s) - Len(sub)) : SubSeq(s, i + 1, i + Len(sub)) = sub

RECURSIVE LStrip(_)
LStrip(s) == IF s # <<>> /\ Head(s) = " " THEN LStrip(Tail(s)) ELSE s

RECURSIVE RStrip(_)
RStrip(s) ==
    IF s # <<>> /\ s[Len(s)] = " " THEN RStrip(SubSeq(s, 1, Len(s) - 1)) ELSE s

\* str.strip()
Strip(s) == LStrip(RStrip(s))

Range(s) == {s[i] : i \in 1..Len(s)}

RECURSIVE env_list(_)
\* env_list, applied to the comma-separated pieces of the variable:
\* [x.strip() for x in raw.split(",") if x.strip()]
env_list(pieces) ==
    IF pieces = <<>> THEN <<>>
    ELSE (IF Strip(Head(pieces)) # <<>> THEN <<Strip(Head(pieces))>> ELSE <<>>)
         \o env_list(Tail(pieces))

\* to_lower_set without its lower()
to_set_as_given(items) == Range(items)

\* to_lower_set
to_lower_set(items) == {StrLower(x) : x \in Range(items)}

(***************************************************************************)
(* Items of the search endpoint.  An item is a record                      *)
(*   html_url      its identity                                            *)
(*   pull_request  whether the item carries the pull_request marker        *)
(*   labels        [present, names]: the "labels" key and the name of each *)
(*                 of its entries (<<>> for an entry without "name")       *)
(*   assignees     [present, logins]: likewise for "assignees" and "login" *)
(*   updated_at    [kind, secs]: kind "valid" (a timestamp dateutil parses,*)
(*                 secs since the epoch), "bad" (a string it does not      *)
(*                 parse) or "absent" (no "updated_at" key)                *)
(* created_at is taken to parse.                                           *)
(***************************************************************************)
Valid(t) == [kind |-> "valid", secs |-> t]
BadTime == [kind |-> "bad", secs |-> 0]
AbsentTime == [kind |-> "absent", secs |-> 0]

Present(s) == [present |-> TRUE, vals |-> s]
AbsentList == [present |-> FALSE, vals |-> <<>>]

\* label_names: [lbl.get("name", "") for lbl in issue.get("labels", [])]
label_names(issue) ==
    IF issue.labels.present THEN issue.labels.vals ELSE <<>>

PRIORITY_ == <<"p", "r", "i", "o", "r", "i", "t", "y", ":">>

\* any("priority:pN" in l or l == "pN" for l in labels_lower)
AnyPriority(labels_lower, n) ==
    \E i \in 1..Len(labels_lower) :
        \/ StrContains(PRIORITY_ \o <<"p", n>>, labels_lower[i])
        \/ labels_lower[i] = <<"p", n>>

\* [l.lower() for l in labels]
LabelsLower(issue) ==
    [i \in 1..Len(label_names(issue)) |-> StrLower(label_names(issue)[i])]

get_priority_score(issue) ==
    LET labels_lower == LabelsLower(issue) IN
    IF AnyPriority(labels_lower, "0") THEN 0
    ELSE IF AnyPriority(labels_lower, "1") THEN 1
    ELSE IF AnyPriority(labels_lower, "2") THEN 2
    ELSE 3

\* get_priority_label with the P1 test ahead of the P0 test
get_priority_label_P1First(issue) ==
    LET labels_lower == LabelsLower(issue) IN
    IF AnyPriority(labels_lower, "1") THEN "P1"
    ELSE IF AnyPriority(labels_lower, "0") THEN "P0"
    ELSE IF AnyPriority(labels_lower, "2") THEN "P2"
    ELSE ""

get_priority_label(issue) ==
    LET labels_lower == LabelsLower(issue) IN
    IF AnyPriority(labels_lower, "0") THEN "P0"
    ELSE IF AnyPriority(labels_lower, "1") THEN "P1"
    ELSE IF AnyPriority(labels_lower, "2") THEN "P2"
    ELSE ""

\* {a.get("login", "").lower() for a in issue.get("assignees", [])}
AssigneesLower(issue) ==
    IF issue.assignees.present THEN to_lower_set(issue.assignees.vals) ELSE {}

keep_issue(issue, priority_labels, exclude_labels, exclude_assignees) ==
    LET names_lower == to_lower_set(label_names(issue)) IN
    IF priority_labels # {} /\ names_lower \cap priority_labels = {}
    THEN FALSE
    ELSE IF exclude_labels # {} /\ names_lower \cap exclude_labels # {}
    THEN FALSE
    ELSE IF exclude_assignees # {}
            /\ AssigneesLower(issue) \cap exclude_assignees # {}
    THEN FALSE
    ELSE TRUE

\* main, lines 221-223: the policy sets read from the environment
PolicyOf(env) ==
    [priority_labels   |-> to_lower_set(env_list(env.PRIORITY_LABELS)),
     exclude_labels    |-> to_lower_set(env_list(env.EXCLUDE_LABELS)),
     exclude_assignees |-> to_lower_set(env_list(env.EXCLUDE_ASSIGNEES))]

\* keep_issue as main calls it (lines 232 and 238)
Kept(issue, policy) ==
    keep_issue(issue, policy.priority_labels, policy.exclude_labels,
               policy.exclude_assignees)

(***************************************************************************)
(* fetch_issues.                                                           *)
(***************************************************************************)
RECURSIVE NextQuery(_, _)
\* the for loop over queries, from index i on: the first query that is not
\* blank after strip() (lines 29-32), Len(queries) + 1 when the loop is over
NextQuery(queries, i) ==
    IF i > Len(queries) THEN i
    ELSE IF Strip(queries[i]) = <<>> THEN NextQuery(queries, i + 1)
    ELSE i

HasKey(d, url) == \E i \in 1..Len(d) : d[i].html_url = url

\* results[item["html_url"]] = item on an insertion-ordered dict
DictSet(d, item) ==
    IF HasKey(d, item.html_url)
    THEN [i \in 1..Len(d) |->
            IF d[i].html_url = item.html_url THEN item ELSE d[i]]
    ELSE Append(d, item)

RECURSIVE MergeItems(_, _, _)
\* lines 39-43: insert the page's items, stopping at the limit
MergeItems(d, items, limit) ==
    IF items = <<>> THEN d
    ELSE IF Len(DictSet(d, Head(items))) >= limit
         THEN DictSet(d, Head(items))
         ELSE MergeItems(DictSet(d, Head(items)), Tail(items), limit)

\* the loops without the short-page break of lines 47-48
AfterPage_IgnoreShort(d, n, queries, q, p, limit) ==
    IF Len(d) >= limit
    THEN [pc |-> "returned", qi |-> q, page |-> p]
    ELSE [pc |-> "request", qi |-> q, page |-> p + 1]

\* the loops without page += 1 (line 49)
AfterPage_SamePage(d, n, queries, q, p, limit) ==
    IF Len(d) >= limit
    THEN [pc |-> "returned", qi |-> q, page |-> p]
    ELSE IF n < per_page
    THEN IF NextQuery(queries, q + 1) > Len(queries)
         THEN [pc |-> "returned", qi |-> q, page |-> p]
         ELSE [pc |-> "request", qi |-> NextQuery(queries, q + 1), page |-> 1]
    ELSE [pc |-> "request", qi |-> q, page |-> p]

\* lines 44-51: where the loops go once a page of n items is merged into d
AfterPage(d, n, queries, q, p, limit) ==
    IF Len(d) >= limit
    THEN [pc |-> "returned", qi |-> q, page |-> p]
    ELSE IF n < per_page
    THEN IF NextQuery(queries, q + 1) > Len(queries)
         THEN [pc |-> "returned", qi |-> q, page |-> p]
         ELSE [pc |-> "request", qi |-> NextQuery(queries, q + 1), page |-> 1]
    ELSE [pc |-> "request", qi |-> q, page |-> p + 1]

\* lines 26-34: entering fetch_issues
EnterFetch(queries) ==
    IF NextQuery(queries, 1) > Len(queries)
    THEN [pc |-> "returned", qi |-> Len(queries) + 1, page |-> 1]
    ELSE [pc |-> "request", qi |-> NextQuery(queries, 1), page |-> 1]

NoReturn == [returned |-> FALSE, items |-> <<>>]
Returned(d) == [returned |-> TRUE, items |-> d]

NoFile == [written |-> FALSE, items |-> <<>>]

\* a failed request swallowed: the call returns what it has
OnRequestFailure_Partial(d) ==
    [pc |-> "returned", results |-> d, ret |-> Returned(d)]

\* lines 36-38: what becomes of the call when a request fails
\* (raise_for_status, a timeout, resp.json() on a malformed body): the
\* exception leaves fetch_issues and main, nothing is returned or written
OnRequestFailure(d) ==
    [pc |-> "transport_error", results |-> <<>>, ret |-> NoReturn]

\* the outcome of a request: it raised, or it answered a page of n items
NoResp == [status |-> "none", n |-> 0]
RespFailed == [status |-> "failed", n |-> 0]
RespOk(n) == [status |-> "ok", n |-> n]

(***************************************************************************)
(* main.                                                                   *)
(***************************************************************************)
QueriesOf(c) == IF c = "issues" THEN cfg.issue_queries ELSE cfg.pr_queries
LimitOf(c) == IF c = "issues" THEN cfg.max_issues ELSE cfg.max_prs

\* no kind test in main
KindMatches_Any(it, c) == TRUE

\* lines 232 and 238: not it.get("pull_request") for the issues call,
\* it.get("pull_request") for the PR call
KindMatches(it, c) == IF c = "issues" THEN ~it.pull_request ELSE it.pull_request

\* lines 232-233 and 238-239
Filtered(items, c, policy) ==
    SelectSeq(items, LAMBDA it : KindMatches(it, c) /\ Kept(it, policy))

\* x.get("updated_at", "2025-01-01T00:00:00Z") parsed, as seconds
DefaultUpdatedAt == 1735689600

\* sort_key without the negation of line 250
sort_key_Ascending(x) ==
    IF x.updated_at.kind = "bad"
    THEN <<get_priority_score(x), 0>>
    ELSE IF x.updated_at.kind = "absent"
    THEN <<get_priority_score(x), DefaultUpdatedAt>>
    ELSE <<get_priority_score(x), x.updated_at.secs>>

\* sort_key, lines 242-252
sort_key(x) ==
    IF x.updated_at.kind = "bad"
    THEN <<get_priority_score(x), 0>>
    ELSE IF x.updated_at.kind = "absent"
    THEN <<get_priority_score(x), 0 - DefaultUpdatedAt>>
    ELSE <<get_priority_score(x), 0 - x.updated_at.secs>>

RECURSIVE KeysOf(_)
\* the key of every item of the list
KeysOf(items) ==
    IF items = <<>> THEN <<>>
    ELSE <<sort_key(Head(items))>> \o KeysOf(Tail(items))

\* tuple comparison of two keys
KeyLess(a, b) == a[1] < b[1] \/ (a[1] = b[1] /\ a[2] < b[2])

\* one step of a stable sort of indices by their keys: x goes before the
\* first index whose key is greater than its own
InsertSorted(keys, s, x) ==
    LET after == {i \in 1..Len(s) : KeyLess(keys[x], keys[s[i]])}
    IN IF after = {}
       THEN Append(s, x)
       ELSE LET k == CHOOSE i \in after : \A j \in after : i <= j
            IN SubSeq(s, 1, k - 1) \o <<x>> \o SubSeq(s, k, Len(s))

RECURSIVE SortFrom(_, _, _)
SortFrom(keys, done, x) ==
    IF x > Len(keys) THEN done
    ELSE SortFrom(keys, InsertSorted(keys, done, x), x + 1)

\* all_items.sort(key=sort_key), line 254: the key of every item is computed
\* once, and the sort is stable
Sorted(items) ==
    LET keys == KeysOf(items)
        order == SortFrom(keys, <<>>, 1)
    IN [i \in 1..Len(items) |-> items[order[i]]]

\* render_html parses updated_at of every item it renders (lines 164, 188)
\* with no default and no try
RenderRaises(items) ==
    \E i \in 1..Len(items) : items[i].updated_at.kind # "valid"

\* render_html: the pull requests section, then the issues section
Rendered(items) ==
    SelectSeq(items, LAMBDA it : it.pull_request)
    \o SelectSeq(items, LAMBDA it : ~it.pull_request)

(***************************************************************************)
(* Inputs.                                                                 *)
(***************************************************************************)
SeqsUpTo(S, n) == UNION {[1..k -> S] : k \in 0..n}

\* the items of a tracker: every html_url as an issue and as a pull request,
\* with an updated_at that parses and with one that does not
ItemPool ==
    [html_url : 1..NumUrls, pull_request : BOOLEAN,
     labels : {Present(<<>>)}, assignees : {Present(<<>>)},
     updated_at : {Valid(1704067200), BadTime}]

\* the pages the endpoint can answer request number p of a query with: any
\* items, at most per_page of them, and a short page at the end of its window
Pages(p) ==
    SeqsUpTo(tracker, IF p >= MaxPage THEN per_page - 1 ELSE per_page)

\* GH_TOKEN
Tokens == {<<>>, <<" ">>, <<"t">>}

\* the comma-separated pieces of SEARCH_QUERIES and of PR_QUERIES
QueryPieces == SeqsUpTo({<<"q">>, <<" ">>}, MaxQueries)

NoPolicyEnv ==
    [PRIORITY_LABELS |-> <<>>, EXCLUDE_LABELS |-> <<>>,
     EXCLUDE_ASSIGNEES |-> <<>>]

NoCfg ==
    [issue_queries |-> <<>>, pr_queries |-> <<>>, max_issues |-> 0,
     max_prs |-> 0, policy |-> PolicyOf(NoPolicyEnv)]

NoProbe == [issue |-> CHOOSE it \in ItemPool : TRUE, env |-> NoPolicyEnv]
NoAnswer == [keep |-> FALSE, score |-> 3, label |-> ""]

(***************************************************************************)
(* The run of main.                                                        *)
(***************************************************************************)
Init ==
    /\ pc = "start"
    /\ cfg = NoCfg
    /\ call = "none"
    /\ qi = 0
    /\ page = 0
    /\ results = <<>>
    /\ resp = NoResp
    /\ issues = NoReturn
    /\ prs = NoReturn
    /\ all_items = <<>>
    /\ out = NoFile
    /\ tracker = ItemPool
    /\ probe = NoProbe
    /\ answer = NoAnswer

\* what main enters once fetch call c is needed: the call, or the next one,
\* or the sort (lines 230, 236, 254)
Enter(c, conf) ==
    IF c = "issues" /\ conf.issue_queries # <<>>
    THEN [call |-> "issues"] @@ EnterFetch(conf.issue_queries)
    ELSE IF c \in {"issues", "prs"} /\ conf.pr_queries # <<>>
    THEN [call |-> "prs"] @@ EnterFetch(conf.pr_queries)
    ELSE [call |-> "none", pc |-> "sort", qi |-> 0, page |-> 0]

\* what the running call returned
RetOf(c) == IF c = "issues" THEN issues ELSE prs

\* main, lines 208-230: read the environment, then start the first call
MainStart ==
    /\ pc = "start"
    /\ \E token \in Tokens, iq \in QueryPieces, pq \in QueryPieces,
          mi \in 0..MaxLimit, mp \in 0..MaxLimit :
          IF Strip(token) = <<>>
          THEN /\ pc' = "exit1"
               /\ UNCHANGED <<cfg, call, qi, page>>
          ELSE LET conf == [issue_queries |-> env_list(iq),
                            pr_queries |-> env_list(pq),
                            max_issues |-> mi, max_prs |-> mp,
                            policy |-> PolicyOf(NoPolicyEnv)]
               IN /\ cfg' = conf
                  /\ pc' = Enter("issues", conf).pc
                  /\ call' = Enter("issues", conf).call
                  /\ qi' = Enter("issues", conf).qi
                  /\ page' = Enter("issues", conf).page
    /\ UNCHANGED <<results, resp, issues, prs, all_items, out, tracker, probe, answer>>

\* fetch_issues, lines 36-53: one request and what the loops do with its
\* answer
FetchPage ==
    /\ pc = "request"
    /\ \E failed \in BOOLEAN, items \in Pages(page) :
          IF failed
          THEN /\ items = <<>>
               /\ resp' = RespFailed
               /\ pc' = OnRequestFailure(results).pc
               /\ results' = OnRequestFailure(results).results
               /\ issues' = IF call = "issues"
                            THEN OnRequestFailure(results).ret ELSE issues
               /\ prs' = IF call = "prs"
                         THEN OnRequestFailure(results).ret ELSE prs
               /\ UNCHANGED <<qi, page>>
          ELSE \E d \in {MergeItems(results, items, LimitOf(call))} :
               \E to \in {AfterPage(d, Len(items), QueriesOf(call), qi, page,
                                    LimitOf(call))} :
                  /\ resp' = RespOk(Len(items))
                  /\ results' = d
                  /\ pc' = to.pc
                  /\ qi' = to.qi
                  /\ page' = to.page
                  /\ issues' = IF call = "issues" /\ to.pc = "returned"
                               THEN Returned(d) ELSE issues
                  /\ prs' = IF call = "prs" /\ to.pc = "returned"
                            THEN Returned(d) ELSE prs
    /\ UNCHANGED <<cfg, call, all_items, out, tracker, probe, answer>>

\* main, lines 231-239: filter what the call returned, then the next call
MainAfterFetch ==
    /\ pc = "returned"
    /\ all_items' = all_items \o Filtered(RetOf(call).items, call, cfg.policy)
    /\ LET to == Enter(IF call = "issues" THEN "prs" ELSE "none", cfg)
       IN /\ pc' = to.pc
          /\ call' = to.call
          /\ qi' = to.qi
          /\ page' = to.page
    /\ results' = <<>>
    /\ resp' = NoResp
    /\ UNCHANGED <<cfg, issues, prs, out, tracker, probe, answer>>

\* main, line 254
SortStep ==
    /\ pc = "sort"
    /\ all_items' = Sorted(all_items)
    /\ pc' = "render"
    /\ UNCHANGED <<cfg, call, qi, page, results, resp, issues, prs, out,
                   tracker, probe, answer>>

\* main, lines 256-258
RenderWrite ==
    /\ pc = "render"
    /\ IF RenderRaises(all_items)
       THEN /\ pc' = "render_error"
            /\ out' = out
       ELSE /\ pc' = "done"
            /\ out' = [written |-> TRUE, items |-> Rendered(all_items)]
    /\ UNCHANGED <<cfg, call, qi, page, results, resp, issues, prs,
                   all_items, tracker, probe, answer>>

Next == MainStart \/ FetchPage \/ MainAfterFetch \/ SortStep \/ RenderWrite

Spec == Init /\ [][Next]_vars

(***************************************************************************)
(* One fetch_issues call on its own: the states in which main has just     *)
(* entered its first call, the issues call (SEARCH_QUERIES holds a query)  *)
(* or the PR call (SEARCH_QUERIES is empty and PR_QUERIES holds a query),  *)
(* and the requests of that call.                                          *)
(***************************************************************************)
FetchEntry(pool) ==
    /\ \E c \in {"issues", "prs"}, qs \in QueryPieces, m \in 0..MaxLimit :
          /\ env_list(qs) # <<>>
          /\ cfg = [issue_queries |-> IF c = "issues" THEN env_list(qs) ELSE <<>>,
                    pr_queries |-> IF c = "prs" THEN env_list(qs) ELSE <<>>,
                    max_issues |-> IF c = "issues" THEN m ELSE 0,
                    max_prs |-> IF c = "prs" THEN m ELSE 0,
                    policy |-> PolicyOf(NoPolicyEnv)]
          /\ call = c
          /\ pc = EnterFetch(env_list(qs)).pc
          /\ qi = EnterFetch(env_list(qs)).qi
          /\ page = EnterFetch(env_list(qs)).page
    /\ results = <<>>
    /\ resp = NoResp
    /\ issues = NoReturn
    /\ prs = NoReturn
    /\ all_items = <<>>
    /\ out = NoFile
    /\ tracker = pool
    /\ probe = NoProbe
    /\ answer = NoAnswer

InitFetch == FetchEntry(ItemPool)

NextFetch == FetchPage

SpecFetch == InitFetch /\ [][NextFetch]_vars

\* a tracker whose items differ in html_url and kind only
PlainPool == {it \in ItemPool : it.updated_at.kind = "valid"}

InitLive == FetchEntry(PlainPool)

\* A request blocks for at most its timeout and nothing else runs, so a
\* request that can be made is made.
LiveSpec == InitLive /\ [][NextFetch]_vars /\ WF_vars(FetchPage)

(***************************************************************************)
(* The ranking on its own: main from line 241 on, for every all_items of   *)
(* at most MaxItems entries that the two calls can have left there (the    *)
(* issues first, then the pull requests; html_url numbers them in fetch    *)
(* order).                                                                 *)
(***************************************************************************)
RankLabels ==
    {Present(<<>>), Present(<<<<"P", "0">>>>), Present(<<<<"p", "1">>>>),
     Present(<<PRIORITY_ \o <<"p", "2">>>>)}

RankTimes == {Valid(1704067200), Valid(1767225600), BadTime, AbsentTime}

RankItems(k, j, ls, ts) ==
    [i \in 1..k |->
        [html_url |-> i, pull_request |-> i > j, labels |-> ls[i],
         assignees |-> Present(<<>>), updated_at |-> ts[i]]]

InitRank ==
    /\ pc = "sort"
    /\ cfg = NoCfg
    /\ call = "none"
    /\ qi = 0
    /\ page = 0
    /\ results = <<>>
    /\ resp = NoResp
    /\ issues = NoReturn
    /\ prs = NoReturn
    /\ \E k \in 0..MaxItems :
          \E j \in 0..k, ls \in [1..k -> RankLabels], ts \in [1..k -> RankTimes] :
             all_items = RankItems(k, j, ls, ts)
    /\ out = NoFile
    /\ tracker = ItemPool
    /\ probe = NoProbe
    /\ answer = NoAnswer

NextRank == SortStep \/ RenderWrite

SpecRank == InitRank /\ [][NextRank]_vars

(***************************************************************************)
(* The classifier on its own: get_priority_score, get_priority_label and   *)
(* keep_issue (with the policy sets as main builds them) applied to one    *)
(* item.                                                                   *)
(***************************************************************************)
B_ == <<"b", "u", "g">>

\* label names for the priority tiers
PriorityLabelPool ==
    {<<"p", "0">>, <<"P", "0">>, <<"p", "1">>, <<"P", "2">>,
     PRIORITY_ \o <<"P", "0">>,
     <<"P", "r", "i", "o", "r", "i", "t", "y", ":", "p", "1", "-", "u">>,
     <<"x">> \o PRIORITY_ \o <<"p", "2">>,
     <<"p", "0", "0">>, <<"p">>, PRIORITY_, B_, <<>>}

\* label names and logins for the inclusion decision
KeepLabelPool == {<<"B", "u", "g">>, <<"P", "0">>, <<>>}
KeepLoginPool == {<<"B", "o", "t">>, <<"a", "l">>}
PolicyLabelPieces == {<<"B", "U", "G">>, <<" ", "p", "0">>, <<" ">>}
PolicyLoginPieces == {<<"b", "O", "T", " ">>, <<"a">>}

ListField(pool, n) == {AbsentList} \cup {Present(s) : s \in SeqsUpTo(pool, n)}

ProbeItem(ls, as) ==
    [html_url |-> 1, pull_request |-> FALSE, labels |-> ls, assignees |-> as,
     updated_at |-> Valid(1704067200)]

PriorityProbe(ls) ==
    [issue |-> ProbeItem(ls, Present(<<>>)), env |-> NoPolicyEnv]

KeepProbe(ls, as, pl, el, ea) ==
    [issue |-> ProbeItem(ls, as),
     env |-> [PRIORITY_LABELS |-> pl, EXCLUDE_LABELS |-> el,
              EXCLUDE_ASSIGNEES |-> ea]]

InitClassify ==
    /\ pc = "probe"
    /\ cfg = NoCfg
    /\ call = "none"
    /\ qi = 0
    /\ page = 0
    /\ results = <<>>
    /\ resp = NoResp
    /\ issues = NoReturn
    /\ prs = NoReturn
    /\ all_items = <<>>
    /\ out = NoFile
    /\ tracker = ItemPool
    /\ \/ \E ls \in ListField(PriorityLabelPool, MaxLabels) :
             probe = PriorityProbe(ls)
       \/ \E ls \in ListField(KeepLabelPool, MaxLabels),
             as \in ListField(KeepLoginPool, MaxAssignees),
             pl \in SeqsUpTo(PolicyLabelPieces, MaxPolicy),
             el \in SeqsUpTo(PolicyLabelPieces, MaxPolicy),
             ea \in SeqsUpTo(PolicyLoginPieces, MaxPolicy) :
             probe = KeepProbe(ls, as, pl, el, ea)
    /\ answer = NoAnswer

Classify ==
    /\ pc = "probe"
    /\ answer' = [keep  |-> Kept(probe.issue, PolicyOf(probe.env)),
                  score |-> get_priority_score(probe.issue),
                  label |-> get_priority_label(probe.issue)]
    /\ pc' = "probed"
    /\ UNCHANGED <<cfg, call, qi, page, results, resp, issues, prs,
                   all_items, out, tracker, probe>>

NextClassify == Classify

SpecClassify == InitClassify /\ [][NextClassify]_vars

(***************************************************************************)
(* The claims.                                                             *)
(***************************************************************************)
InCall == pc \in {"request", "returned"}

\* C1: fetch_issues returns at most limit entries and never issues a page
\* request while the accumulator already holds limit or more entries, the
\* first request of the call included.
C1_LimitEnforced ==
    /\ pc = "request" => Len(results) < LimitOf(call)
    /\ pc = "returned" => Len(RetOf(call).items) <= LimitOf(call)

UniqueKeys(d) ==
    \A i, j \in 1..Len(d) : d[i].html_url = d[j].html_url => i = j

\* C2: within one call the accumulator holds one entry per html_url, and it
\* is the first-seen copy: no request changes an entry already stored.
C2_FirstSeenWins ==
    [][pc = "request" /\ pc' \in {"request", "returned"} =>
          /\ UniqueKeys(results')
          /\ Len(results') >= Len(results)
          /\ \A i \in 1..Len(results) : results'[i] = results[i]]_vars

\* C3 as stated: an item whose kind does not match the call is never
\* inserted into the accumulator.
C3_FilteredBeforeAccumulation ==
    InCall => \A i \in 1..Len(results) : KindMatches(results[i], call)

\* C3 as amended: the kind is tested by main when the call has returned, not
\* by fetch_issues: a request never touches all_items, and what main appends
\* to all_items after the call is exactly the returned items that are of the
\* call's kind and that keep_issue accepts.
C3_FilteredAfterFetch ==
    [][/\ pc = "request" => all_items' = all_items
       /\ pc = "returned" =>
            /\ Len(all_items') >= Len(all_items)
            /\ SubSeq(all_items', 1, Len(all_items)) = all_items
            /\ \A i \in (Len(all_items) + 1)..Len(all_items') :
                    /\ all_items'[i].pull_request = (call = "prs")
                    /\ all_items'[i] \in Range(RetOf(call).items)
                    /\ Kept(all_items'[i], cfg.policy)
            /\ \A i \in 1..Len(RetOf(call).items) :
                    /\ RetOf(call).items[i].pull_request = (call = "prs")
                    /\ Kept(RetOf(call).items[i], cfg.policy)
                    => \E k \in (Len(all_items) + 1)..Len(all_items') :
                          all_items'[k] = RetOf(call).items[i]]_vars

\* the issues call was stopped by the limit with a pull request in one of
\* its slots, and main dropped that pull request
C3_Witness ==
    /\ pc = "sort"
    /\ issues.returned
    /\ cfg.max_issues = MaxLimit
    /\ Len(issues.items) = cfg.max_issues
    /\ \E i \in 1..Len(issues.items) :
          /\ issues.items[i].pull_request
          /\ \A k \in 1..Len(all_items) :
                all_items[k].html_url # issues.items[i].html_url
    /\ Len(all_items) < cfg.max_issues

\* C4: a failed request ends the run: the call returns nothing, no further
\* request or other step follows, and no output file is written.
C4_TransportFailureIsFatal ==
    resp.status = "failed" =>
        /\ pc = "transport_error"
        /\ RetOf(call) = NoReturn
        /\ out = NoFile
        /\ ~ENABLED Next

\* the PR call failed on a later page after the issues call had succeeded
\* and left items in all_items
C4_Witness ==
    /\ pc = "transport_error"
    /\ call = "prs"
    /\ page > 1
    /\ issues.returned
    /\ all_items # <<>>
    /\ out = NoFile

\* C5: a query's pages are requested in ascending order from page 1; a
\* further page of the same query is requested only after a full page; after
\* a short page with the accumulator below the limit the next query, if any,
\* is started at page 1, and otherwise the call returns.
C5_ShortPageEndsQuery ==
    [][/\ pc = "request" /\ resp.status = "none" => page = 1
       /\ pc = "request" /\ pc' = "request" /\ qi' = qi =>
            page' = page + 1 /\ resp'.n = per_page
       /\ pc = "request" /\ pc' = "request" /\ qi' # qi =>
            qi' = qi + 1 /\ page' = 1
       /\ pc = "request" /\ resp'.status = "ok" /\ resp'.n < per_page
          /\ Len(results') < LimitOf(call) =>
            IF qi < Len(QueriesOf(call))
            THEN pc' = "request" /\ qi' = qi + 1 /\ page' = 1
            ELSE pc' = "returned"]_vars

\* the first query ended on a short first page with the accumulator below
\* the limit, and the second query is at its first request
C5_Witness ==
    /\ pc = "request"
    /\ qi = 2
    /\ page = 1
    /\ resp.status = "ok"
    /\ resp.n < per_page
    /\ Len(results) = 1
    /\ LimitOf(call) = MaxLimit

Tier(x) == get_priority_score(x)

RECURSIVE TiersOf(_)
TiersOf(items) ==
    IF items = <<>> THEN <<>> ELSE <<Tier(Head(items))>> \o TiersOf(Tail(items))

RECURSIVE PositionsIn(_, _)
\* where each item of items stands in the list before
PositionsIn(before, items) ==
    IF items = <<>> THEN <<>>
    ELSE <<CHOOSE k \in 1..Len(before) : before[k] = Head(items)>>
         \o PositionsIn(before, Tail(items))

\* after is ordered by tier, then newest first, then by position before
Ranked(after, tier, pos) ==
    \A i, j \in 1..Len(after) :
        i < j =>
        /\ tier[i] <= tier[j]
        /\ tier[i] = tier[j] /\ after[i].updated_at.kind = "valid"
           /\ after[j].updated_at.kind = "valid"
           => after[i].updated_at.secs >= after[j].updated_at.secs
        /\ tier[i] = tier[j] /\ after[i].updated_at = after[j].updated_at
           => pos[i] < pos[j]

\* C6: the sort keeps the items and orders them by tier (P0, P1, P2, none);
\* within a tier a newer updated_at is never behind an older one; items of
\* the same tier and the same updated_at stay in fetch order.
C6_RankingOrder ==
    [][pc = "sort" =>
          /\ Len(all_items') = Len(all_items)
          /\ Range(all_items') = Range(all_items)
          /\ \A after \in {all_items'} :
                \A tier \in {TiersOf(after)},
                   pos \in {PositionsIn(all_items, after)} :
                   Ranked(after, tier, pos)]_vars

\* three items sorted: the last fetched has the best tier and came first,
\* the other two tie on tier and updated_at and kept their fetch order
C6_Witness ==
    /\ pc = "render"
    /\ Len(all_items) = 3
    /\ all_items[1].html_url = 3
    /\ all_items[2].html_url = 1
    /\ all_items[3].html_url = 2
    /\ Tier(all_items[1]) = 0
    /\ Tier(all_items[2]) = 1
    /\ Tier(all_items[3]) = 1
    /\ all_items[2].updated_at = all_items[3].updated_at
    /\ all_items[2].updated_at.kind = "valid"

\* C7: an item whose updated_at does not parse or is missing sorts after
\* every item of its tier with a valid updated_at, and the digest is still
\* produced.
C7_BadTimestampsSortLast ==
    /\ pc # "render_error"
    /\ pc \in {"render", "done"} =>
          \A i, j \in 1..Len(all_items) :
             /\ i < j
             /\ Tier(all_items[i]) = Tier(all_items[j])
             /\ all_items[j].updated_at.kind = "valid"
             => all_items[i].updated_at.kind = "valid"

\* membership without regard to case: some a of S and b of T are equal once
\* lower-cased
MatchNoCase(S, T) == \E a \in S, b \in T : StrLower(a) = StrLower(b)

\* the entries of a policy variable: its stripped non-empty pieces
PolicyEntries(pieces) == {Strip(x) : x \in Range(pieces)} \ {<<>>}

ProbeLabels == Range(label_names(probe.issue))
ProbeLogins ==
    IF probe.issue.assignees.present
    THEN Range(probe.issue.assignees.vals) ELSE {}

\* C8: keep_issue is true exactly when (priorityLabels is empty or the labels
\* meet it) and the labels do not meet excludeLabels and the assignees do not
\* meet excludeAssignees, comparing without regard to case on both sides.
C8_KeepIffPolicy ==
    pc = "probed" =>
        answer.keep =
            (/\ \/ PolicyEntries(probe.env.PRIORITY_LABELS) = {}
                \/ MatchNoCase(ProbeLabels,
                               PolicyEntries(probe.env.PRIORITY_LABELS))
             /\ ~MatchNoCase(ProbeLabels,
                             PolicyEntries(probe.env.EXCLUDE_LABELS))
             /\ ~MatchNoCase(ProbeLogins,
                             PolicyEntries(probe.env.EXCLUDE_ASSIGNEES)))

\* an item whose label is a priority label, assigned to an excluded handle
\* written in another case on each side, is dropped
C8_Witness ==
    /\ pc = "probed"
    /\ ~answer.keep
    /\ probe.issue.labels = Present(<<<<"B", "u", "g">>>>)
    /\ probe.issue.assignees = Present(<<<<"B", "o", "t">>>>)
    /\ probe.env.PRIORITY_LABELS = <<<<"B", "U", "G">>>>
    /\ probe.env.EXCLUDE_LABELS = <<>>
    /\ probe.env.EXCLUDE_ASSIGNEES = <<<<"b", "O", "T", " ">>>>

\* a label qualifies for tier n: lower-cased it is "pn" or holds "priority:pn"
Qualifies(l, n) ==
    \/ StrLower(l) = <<"p", n>>
    \/ StrContains(PRIORITY_ \o <<"p", n>>, StrLower(l))

SomeQualifies(n) == \E l \in ProbeLabels : Qualifies(l, n)

TierName(n) == CASE n = 0 -> "P0" [] n = 1 -> "P1" [] n = 2 -> "P2" [] OTHER -> ""

\* C9: get_priority_score gives one tier of 0..3 for every label list (3 for
\* a missing or empty one); 0 exactly when some label qualifies for P0, 1
\* exactly when none does and one qualifies for P1, 2 exactly when none does
\* for P0 or P1 and one qualifies for P2; get_priority_label names the same
\* tier.
C9_PriorityTotalOrdered ==
    pc = "probed" =>
        /\ answer.score \in 0..3
        /\ ProbeLabels = {} => answer.score = 3
        /\ answer.score = 0 <=> SomeQualifies("0")
        /\ answer.score = 1 <=> ~SomeQualifies("0") /\ SomeQualifies("1")
        /\ answer.score = 2 <=>
              ~SomeQualifies("0") /\ ~SomeQualifies("1") /\ SomeQualifies("2")
        /\ answer.label = TierName(answer.score)

\* an item with a P1 label ahead of a "priority:P0" label is P0
C9_Witness ==
    /\ pc = "probed"
    /\ probe.issue.labels =
          Present(<<<<"p", "1">>, PRIORITY_ \o <<"P", "0">>>>)
    /\ answer.score = 0
    /\ answer.label = "P0"

\* C10: with an endpoint whose result window is finite, every request of a
\* fetch_issues call is followed by the call returning or raising.
C10_FetchTerminates ==
    pc = "request" ~> pc \in {"returned", "transport_error"}

\* a call that went on to the next page after a full page that added nothing
\* new to the accumulator
C10_Witness ==
    /\ pc = "request"
    /\ page = 2
    /\ resp.status = "ok"
    /\ resp.n = per_page
    /\ Len(results) = 1
    /\ LimitOf(call) = MaxLimit

====
